---- MODULE Spec2Model ----
(***************************************************************************)
(* Vehicle lifecycle carbon comparison: Lifecycle Calculator               *)
(* (carbon_engine.py), Break-Even Analyzer (break_even.py) and             *)
(* Recommendation Engine (recommendation_logic.py).                        *)
(*                                                                         *)
(* Number representation.  The program computes in floats; the model       *)
(* computes the same formulas in fixed point:                              *)
(*   - unrounded masses (manufacturing_kg, use_kg, ...) in 1e-4 kg,        *)
(*   - fields rounded by round(x, 1) in 0.1 kg (per_km in 0.1 g/km),       *)
(*   - energy (kWh or litres) in 1e-4, emission factors in 1e-4 kg/unit,   *)
(*   - size multipliers and fractions in hundredths,                       *)
(*   - consumption per 100 km and battery capacity in tenths.              *)
(* On the inputs explored (annual_km a multiple of 1000, grid_factor a     *)
(* multiple of 1e-4) every product below is exact in these units, and the  *)
(* model returns the fields that the program returns on them.              *)
(*                                                                         *)
(* round(x, 1) rounds to the nearest tenth.  On an exact decimal tie the   *)
(* float that the program holds lies on one side or the other, so RoundDiv *)
(* returns both neighbours and a calculation chooses among them; the       *)
(* program is a function of its inputs, so the same request (or the same   *)
(* result handed to the curve builder) gets the same choice again.         *)
(***************************************************************************)
EXTENDS Integers, Sequences, FiniteSets, TLC

VARIABLES pc, req, calc, years, results, break_even, recommendation

vars == <<pc, req, calc, years, results, break_even, recommendation>>

(***************************************************************************)
(* Bounds of the model.                                                    *)
(***************************************************************************)
MaxAnnualKm == 23      \* single calculations: annual_km in 1000 .. 23000 km
MaxYears == 11         \* single calculations: years in 1 .. 11
MaxResults == 3        \* longest result list handed to compare / recommend

\* grid_factor values (1e-4 kg CO2-eq/kWh): 0.001, 0.05, 0.233, 0.8864, 2.0
GridFactors == {10, 500, 2330, 8864, 20000}

(***************************************************************************)
(* Arithmetic helpers.                                                     *)
(***************************************************************************)
Min(a, b) == IF a <= b THEN a ELSE b

\* floor(a * b / d) without forming a * b (a, b >= 0, d > 0)
MulDiv(a, b, d) == (a \div d) * b + ((a % d) * b) \div d

\* a * k as a two-digit number <<hi, lo>> in base 10000 (a >= 0, 0 <= k <= 100)
WideMul(a, k) ==
    LET p0 == (a % 10000) * k
    IN  <<(a \div 10000) * k + p0 \div 10000, p0 % 10000>>

WideLess(x, y) == x[1] < y[1] \/ (x[1] = y[1] /\ x[2] < y[2])

\* a / b < n / 100 and a / b > n / 100, for b > 0
RatioBelow(a, b, n) == WideLess(WideMul(a, 100), WideMul(b, n))
RatioAbove(a, b, n) == WideLess(WideMul(b, n), WideMul(a, 100))

\* round(n / d) to the nearest integer, n >= 0, d > 0; both neighbours on a tie
RoundDiv(n, d) ==
    LET q == n \div d
        r == n % d
    IN  IF 2 * r < d THEN {q}
        ELSE IF 2 * r > d THEN {q + 1}
        ELSE {q, q + 1}

\* round(x, 1) of a mass held in 1e-4 kg, result in 0.1 kg
Round1(x) == RoundDiv(x, 1000)

(***************************************************************************)
(* Constant Library (data_loader.py).                                      *)
(***************************************************************************)
VehicleTypes == {"BEV", "PHEV", "HEV", "ICEV-p", "ICEV-d"}

VEHICLE_PARAMS ==
    [v \in VehicleTypes |->
        CASE v = "BEV" ->
               [glider_manufacturing_kg |-> 6500, powertrain_manufacturing_kg |-> 400,
                battery_manufacturing_per_kwh |-> 150, battery_capacity_kwh |-> 600,
                energy_consumption_per_100km |-> 180, fuel_type |-> "electricity",
                disposal_kg |-> 200, battery_eol_factor |-> 20]
          [] v = "PHEV" ->
               [glider_manufacturing_kg |-> 7000, powertrain_manufacturing_kg |-> 800,
                battery_manufacturing_per_kwh |-> 150, battery_capacity_kwh |-> 140,
                energy_consumption_per_100km |-> 55, fuel_type |-> "hybrid_petrol",
                disposal_kg |-> 250, battery_eol_factor |-> 20]
          [] v = "HEV" ->
               [glider_manufacturing_kg |-> 7200, powertrain_manufacturing_kg |-> 900,
                battery_manufacturing_per_kwh |-> 150, battery_capacity_kwh |-> 15,
                energy_consumption_per_100km |-> 50, fuel_type |-> "hybrid_petrol",
                disposal_kg |-> 280, battery_eol_factor |-> 20]
          [] v = "ICEV-p" ->
               [glider_manufacturing_kg |-> 6800, powertrain_manufacturing_kg |-> 1500,
                battery_manufacturing_per_kwh |-> 0, battery_capacity_kwh |-> 0,
                energy_consumption_per_100km |-> 75, fuel_type |-> "petrol",
                disposal_kg |-> 350, battery_eol_factor |-> 0]
          [] v = "ICEV-d" ->
               [glider_manufacturing_kg |-> 7000, powertrain_manufacturing_kg |-> 1700,
                battery_manufacturing_per_kwh |-> 0, battery_capacity_kwh |-> 0,
                energy_consumption_per_100km |-> 60, fuel_type |-> "diesel",
                disposal_kg |-> 370, battery_eol_factor |-> 0]]

\* kg CO2-eq per litre, in 1e-4
FUEL_EMISSION_FACTORS == [petrol |-> 23920, diesel |-> 26400]

\* hundredths
SIZE_MULTIPLIERS == [small |-> 85, medium |-> 100, large |-> 120]

VehicleSizes == DOMAIN SIZE_MULTIPLIERS

\* hundredths
PHEV_ELECTRIC_FRACTION == 42

\* hundredths
GREENWASHING_OPERATIONAL_THRESHOLD_PCT == 5

\* kg
GREENWASHING_TOTAL_THRESHOLD_KG == 15000

\* battery_capacity_kwh above which a hybrid is treated as a plug-in (tenths of kWh)
PlugInCapacityThreshold == 140

\* the split of a hybrid_petrol vehicle: electric fraction (hundredths) and
\* whether the electric portion is charged from the grid
HybridSplit(params) ==
    IF params.battery_capacity_kwh > PlugInCapacityThreshold
    THEN [electric_fraction |-> PHEV_ELECTRIC_FRACTION, grid_charged |-> TRUE]
    ELSE [electric_fraction |-> 5, grid_charged |-> FALSE]

(***************************************************************************)
(* Lifecycle Calculator (carbon_engine.py).                                *)
(***************************************************************************)
\* use-phase emissions in 1e-4 kg; total_km in km, grid_factor in 1e-4, size_mult in hundredths
CalculateUsePhase(params, total_km, grid_factor, size_mult) ==
    LET fuel == params.fuel_type
        consumption == params.energy_consumption_per_100km * size_mult  \* 1e-3 per 100 km
    IN  CASE fuel = "electricity" ->
               LET kwh_total == MulDiv(consumption, total_km, 10)
               IN  MulDiv(kwh_total, grid_factor, 10000)
          [] fuel = "petrol" ->
               LET litres_total == MulDiv(consumption, total_km, 10)
               IN  MulDiv(litres_total, FUEL_EMISSION_FACTORS["petrol"], 10000)
          [] fuel = "diesel" ->
               LET litres_total == MulDiv(consumption, total_km, 10)
               IN  MulDiv(litres_total, FUEL_EMISSION_FACTORS["diesel"], 10000)
          [] fuel = "hybrid_petrol" ->
               LET split == HybridSplit(params)
                   electric_km == MulDiv(total_km, split.electric_fraction, 100)
                   fossil_km == MulDiv(total_km, 100 - split.electric_fraction, 100)
                   kwh_electric == MulDiv(180 * size_mult, electric_km, 10)
                   electric_emissions ==
                       IF split.grid_charged
                       THEN MulDiv(kwh_electric, grid_factor, 10000)
                       ELSE 0
                   fossil_emissions ==
                       MulDiv(MulDiv(consumption, fossil_km, 10),
                              FUEL_EMISSION_FACTORS["petrol"], 10000)
               IN  electric_emissions + fossil_emissions

\* battery capacity scaled by size, in 1e-3 kWh
BatteryKwh(params, size_mult) ==
    IF params.battery_capacity_kwh > 0 THEN params.battery_capacity_kwh * size_mult ELSE 0

\* manufacturing emissions in 1e-4 kg
CalculateManufacturing(params, size_mult) ==
    LET glider_kg == params.glider_manufacturing_kg * size_mult * 100
        powertrain_kg == params.powertrain_manufacturing_kg * size_mult * 100
        battery_kg == BatteryKwh(params, size_mult) * params.battery_manufacturing_per_kwh * 10
    IN  glider_kg + powertrain_kg + battery_kg

\* end-of-life emissions in 1e-4 kg; battery_kwh_actual in 1e-3 kWh
CalculateDisposal(params, battery_kwh_actual, size_mult) ==
    LET body_disposal == params.disposal_kg * size_mult * 100
        battery_eol == battery_kwh_actual * params.battery_eol_factor * 10
    IN  body_disposal + battery_eol

\* faulty variant: the secondary rule is applied to every vehicle type
CheckGreenwashing_AnyType(use_kg, total_kg, vehicle_type) ==
    IF total_kg = 0 THEN <<FALSE, "None">>
    ELSE IF /\ RatioBelow(use_kg, total_kg, GREENWASHING_OPERATIONAL_THRESHOLD_PCT)
            /\ total_kg > GREENWASHING_TOTAL_THRESHOLD_KG * 10000
         THEN <<TRUE, "zero_emission_misleading">>
    ELSE IF RatioAbove(use_kg, total_kg, 70)
         THEN <<TRUE, "grid_decarbonisation">>
    ELSE <<FALSE, "None">>

\* <<flag, reason>>; the reason is modelled by the rule whose message it is
CheckGreenwashing(use_kg, total_kg, vehicle_type) ==
    IF total_kg = 0 THEN <<FALSE, "None">>
    ELSE IF /\ RatioBelow(use_kg, total_kg, GREENWASHING_OPERATIONAL_THRESHOLD_PCT)
            /\ total_kg > GREENWASHING_TOTAL_THRESHOLD_KG * 10000
         THEN <<TRUE, "zero_emission_misleading">>
    ELSE IF vehicle_type = "BEV" /\ RatioAbove(use_kg, total_kg, 70)
         THEN <<TRUE, "grid_decarbonisation">>
    ELSE <<FALSE, "None">>

\* faulty variant: an unknown identifier falls back to the BEV parameters
ParamsLookup_Default(vehicle_type) ==
    IF vehicle_type \in DOMAIN VEHICLE_PARAMS
    THEN [found |-> TRUE, params |-> VEHICLE_PARAMS[vehicle_type]]
    ELSE [found |-> TRUE, params |-> VEHICLE_PARAMS["BEV"]]

\* VEHICLE_PARAMS[vehicle_type]: the lookup raises KeyError for a missing key
ParamsLookup(vehicle_type) ==
    IF vehicle_type \in DOMAIN VEHICLE_PARAMS
    THEN [found |-> TRUE, params |-> VEHICLE_PARAMS[vehicle_type]]
    ELSE [found |-> FALSE]

\* faulty variant: the total leaves out the disposal phase
LifecycleTotals_NoDisposal(vehicle_type, annual_km, yrs, grid_factor, vehicle_size) ==
    LET params == ParamsLookup(vehicle_type).params
        size_mult == SIZE_MULTIPLIERS[vehicle_size]
        total_km == annual_km * yrs
        manufacturing_kg == CalculateManufacturing(params, size_mult)
        use_kg == CalculateUsePhase(params, total_km, grid_factor, size_mult)
        disposal_kg == CalculateDisposal(params, BatteryKwh(params, size_mult), size_mult)
    IN  [total_km |-> total_km,
         manufacturing_kg |-> manufacturing_kg,
         use_kg |-> use_kg,
         disposal_kg |-> disposal_kg,
         total_kg |-> manufacturing_kg + use_kg]

\* the unrounded totals of one calculation, masses in 1e-4 kg
LifecycleTotals(vehicle_type, annual_km, yrs, grid_factor, vehicle_size) ==
    LET params == ParamsLookup(vehicle_type).params
        size_mult == SIZE_MULTIPLIERS[vehicle_size]
        total_km == annual_km * yrs
        manufacturing_kg == CalculateManufacturing(params, size_mult)
        use_kg == CalculateUsePhase(params, total_km, grid_factor, size_mult)
        disposal_kg == CalculateDisposal(params, BatteryKwh(params, size_mult), size_mult)
    IN  [total_km |-> total_km,
         manufacturing_kg |-> manufacturing_kg,
         use_kg |-> use_kg,
         disposal_kg |-> disposal_kg,
         total_kg |-> manufacturing_kg + use_kg + disposal_kg]

\* faulty variant: kg per km scaled by 100 instead of 1000
PerKm_Factor100(total_kg, total_km) ==
    IF total_km > 0 THEN RoundDiv(total_kg, total_km * 10) ELSE {0}

\* per_km_g rounded to 1 decimal, in 0.1 g/km
PerKm(total_kg, total_km) ==
    IF total_km > 0 THEN RoundDiv(total_kg, total_km) ELSE {0}

\* the LifecycleResults calculate_lifecycle can return for a known vehicle type
CalculateLifecycle(vehicle_type, annual_km, yrs, grid_factor, vehicle_size) ==
    LET t == LifecycleTotals(vehicle_type, annual_km, yrs, grid_factor, vehicle_size)
        gw == CheckGreenwashing(t.use_kg, t.total_kg, vehicle_type)
    IN  { [vehicle_type |-> vehicle_type,
           manufacturing |-> m,
           use_phase |-> u,
           disposal |-> d,
           total |-> tot,
           total_km |-> t.total_km,
           per_km |-> p,
           greenwashing_flag |-> gw[1],
           greenwashing_reason |-> gw[2]] :
          m \in Round1(t.manufacturing_kg), u \in Round1(t.use_kg),
          d \in Round1(t.disposal_kg), tot \in Round1(t.total_kg),
          p \in PerKm(t.total_kg, t.total_km) }

(***************************************************************************)
(* sorted(results, key=lambda r: r.total): ascending and stable.           *)
(***************************************************************************)
\* faulty variant: the sort is descending
InsertByTotal_Descending(s, r) ==
    LET k == Cardinality({i \in 1..Len(s) : s[i].total >= r.total})
    IN  SubSeq(s, 1, k) \o <<r>> \o SubSeq(s, k + 1, Len(s))

\* insert r behind every element of the sorted sequence s whose total is <= r.total
InsertByTotal(s, r) ==
    LET k == Cardinality({i \in 1..Len(s) : s[i].total <= r.total})
    IN  SubSeq(s, 1, k) \o <<r>> \o SubSeq(s, k + 1, Len(s))

RECURSIVE SortPrefix(_, _)
SortPrefix(rs, n) ==
    IF n = 0 THEN <<>> ELSE InsertByTotal(SortPrefix(rs, n - 1), rs[n])

\* faulty variant: the list is left in the order given
SortedByTotal_AsGiven(rs) == rs

SortedByTotal(rs) == SortPrefix(rs, Len(rs))

(***************************************************************************)
(* Break-Even Analyzer (break_even.py).  A curve is a list; the entry for  *)
(* year y is at position y + 1.                                            *)
(***************************************************************************)
None == [present |-> FALSE]
Some(v) == [present |-> TRUE, value |-> v]

\* faulty variant: the upfront cost leaves out disposal
CurvePoint_NoDisposal(result, yrs, y) ==
    LET upfront == result.manufacturing
    IN  IF yrs > 0
        THEN RoundDiv(upfront * yrs + result.use_phase * y, yrs)
        ELSE {upfront}

\* the values round(upfront + annual * y, 1) can take, in 0.1 kg
CurvePoint(result, yrs, y) ==
    LET upfront == result.manufacturing + result.disposal
    IN  IF yrs > 0
        THEN RoundDiv(upfront * yrs + result.use_phase * y, yrs)
        ELSE {upfront}

\* the lists [curve[0], ..., curve[n]] the comprehension can produce
RECURSIVE CurvePrefixes(_, _, _)
CurvePrefixes(result, yrs, n) ==
    IF n < 0 THEN {<<>>}
    ELSE {Append(c, v) : c \in CurvePrefixes(result, yrs, n - 1),
                         v \in CurvePoint(result, yrs, n)}

\* faulty variant: the comprehension runs over range(0, years)
BuildCumulativeCurve_Short(result, yrs) == CurvePrefixes(result, yrs, yrs - 1)

BuildCumulativeCurve(result, yrs) == CurvePrefixes(result, yrs, yrs)

\* faulty variant: the scan looks for best_curve < comparison_curve
FindBreakEvenYear_Strict(best_curve, comparison_curve) ==
    LET n == Min(Len(best_curve), Len(comparison_curve))
        hits == {y \in 0..(n - 1) : best_curve[y + 1] < comparison_curve[y + 1]}
    IN  IF hits = {} THEN None
        ELSE Some(CHOOSE y \in hits : \A z \in hits : y <= z)

\* first year where best_curve <= comparison_curve, over zip(best, comparison)
FindBreakEvenYear(best_curve, comparison_curve) ==
    LET n == Min(Len(best_curve), Len(comparison_curve))
        hits == {y \in 0..(n - 1) : best_curve[y + 1] <= comparison_curve[y + 1]}
    IN  IF hits = {} THEN None
        ELSE Some(CHOOSE y \in hits : \A z \in hits : y <= z)

\* the curve of sorted_results[n], given the curves cs of the results before
\* it: _build_cumulative_curve is a function, equal results get equal curves
CurveChoices(sorted_results, yrs, n, cs) ==
    LET same == {j \in 1..(n - 1) : sorted_results[j] = sorted_results[n]}
    IN  IF same = {} THEN BuildCumulativeCurve(sorted_results[n], yrs)
        ELSE {cs[CHOOSE j \in same : TRUE]}

\* the lists of curves of sorted_results[1..n] the calls can produce
RECURSIVE CurveLists(_, _, _)
CurveLists(sorted_results, yrs, n) ==
    IF n = 0 THEN {<<>>}
    ELSE UNION {{Append(cs, c) : c \in CurveChoices(sorted_results, yrs, n, cs)} :
                  cs \in CurveLists(sorted_results, yrs, n - 1)}

\* the values compare_best_vs_all can return
CompareBestVsAll(rs, yrs) ==
    IF Len(rs) < 2 THEN {[status |-> "None"]}
    ELSE LET sorted_results == SortedByTotal(rs)
             best == sorted_results[1]
             others == Tail(sorted_results)
             years_range == [i \in 1..(yrs + 1) |-> i - 1]
         IN  {[status |-> "ok",
               value |-> [best_vehicle |-> best.vehicle_type,
                          years_range |-> years_range,
                          pairs |-> [k \in 1..Len(others) |->
                              [year |-> FindBreakEvenYear(cs[1], cs[k + 1]),
                               best_vehicle |-> best.vehicle_type,
                               comparison_vehicle |-> others[k].vehicle_type,
                               yearly_best_cumulative |-> cs[1],
                               yearly_comparison_cumulative |-> cs[k + 1]]]]] :
                cs \in CurveLists(sorted_results, yrs, Len(sorted_results))}

(***************************************************************************)
(* Recommendation Engine (recommendation_logic.py).                        *)
(***************************************************************************)
\* faulty variant: the confidence is not capped at 99.0
Confidence_NoCap(sorted_results) ==
    IF Len(sorted_results) > 1
    THEN LET best == sorted_results[1]
             second_best == sorted_results[2]
             gap == second_best.total - best.total
         IN  RoundDiv(500 * second_best.total + gap * 1650, second_best.total)
    ELSE {990}

\* round(min(99.0, 50.0 + gap_pct * 1.65), 1) in 0.1 %, where
\* gap_pct = (second_best.total - best.total) / second_best.total * 100
Confidence(sorted_results) ==
    IF Len(sorted_results) > 1
    THEN LET best == sorted_results[1]
             second_best == sorted_results[2]
             gap == second_best.total - best.total
         IN  IF gap * 1650 >= 490 * second_best.total
             THEN {990}
             ELSE RoundDiv(500 * second_best.total + gap * 1650, second_best.total)
    ELSE {990}

\* the sentences of the reasoning text, in order
BuildReasoning(best, worst, sorted_results, savings_kg, savings_pct_positive) ==
    <<"lowest_total">>
    \o (IF savings_pct_positive /\ worst.vehicle_type # best.vehicle_type
        THEN <<"savings_vs_worst">> ELSE <<>>)
    \o (IF best.manufacturing > best.use_phase
        THEN <<"manufacturing_dominates">>
        ELSE IF best.use_phase > best.manufacturing * 2
             THEN <<"use_phase_dominates">>
             ELSE <<>>)
    \o (IF best.greenwashing_flag THEN <<"greenwashing_alert">> ELSE <<>>)

\* faulty variant: among results of equal total the last one given comes first
RecommendVehicle_LastOfEqual(rs) ==
    IF Len(rs) = 0 THEN {[status |-> "ValueError"]}
    ELSE LET sorted_results == SortedByTotal([i \in 1..Len(rs) |-> rs[Len(rs) + 1 - i]])
             best == sorted_results[1]
             worst == sorted_results[Len(sorted_results)]
             savings_kg == worst.total - best.total
             savings_pct_positive == worst.total > 0 /\ savings_kg > 0
             savings_pct == IF worst.total > 0
                            THEN RoundDiv(savings_kg * 1000, worst.total)
                            ELSE {0}
         IN  {[status |-> "ok",
               value |-> [recommended_vehicle |-> best.vehicle_type,
                          total_emissions_kg |-> best.total,
                          confidence_percentage |-> c,
                          savings_vs_worst_kg |-> savings_kg,
                          savings_vs_worst_pct |-> sp,
                          reasoning |-> BuildReasoning(best, worst, sorted_results,
                                                       savings_kg, savings_pct_positive)]] :
                c \in Confidence(sorted_results), sp \in savings_pct}

\* the values recommend_vehicle can return, or the ValueError it raises
RecommendVehicle(rs) ==
    IF Len(rs) = 0 THEN {[status |-> "ValueError"]}
    ELSE LET sorted_results == SortedByTotal(rs)
             best == sorted_results[1]
             worst == sorted_results[Len(sorted_results)]
             savings_kg == worst.total - best.total
             savings_pct_positive == worst.total > 0 /\ savings_kg > 0
             savings_pct == IF worst.total > 0
                            THEN RoundDiv(savings_kg * 1000, worst.total)
                            ELSE {0}
         IN  {[status |-> "ok",
               value |-> [recommended_vehicle |-> best.vehicle_type,
                          total_emissions_kg |-> best.total,
                          confidence_percentage |-> c,
                          savings_vs_worst_kg |-> savings_kg,
                          savings_vs_worst_pct |-> sp,
                          reasoning |-> BuildReasoning(best, worst, sorted_results,
                                                       savings_kg, savings_pct_positive)]] :
                c \in Confidence(sorted_results), sp \in savings_pct}

(***************************************************************************)
(* Single calculation: calculate_lifecycle called on one request, and the  *)
(* status calculate_single (main.py) answers with.                         *)
(***************************************************************************)
\* an identifier that is not in the Constant Library
UnknownVehicleType == "FCEV"

CalcRequests ==
    [vehicle_type : VehicleTypes \cup {UnknownVehicleType},
     annual_km : {1000 * k : k \in 1..MaxAnnualKm},
     years : 1..MaxYears,
     grid_factor : GridFactors,
     vehicle_size : VehicleSizes]

InitCalc ==
    /\ pc = "calculate"
    /\ req \in CalcRequests
    /\ calc = [status |-> "pending"]
    /\ years = 0
    /\ results = <<>>
    /\ break_even = [status |-> "not_run"]
    /\ recommendation = [status |-> "not_run"]

\* calculate_lifecycle returns a LifecycleResult
CalculateOk ==
    /\ pc = "calculate"
    /\ ParamsLookup(req.vehicle_type).found
    /\ \E r \in CalculateLifecycle(req.vehicle_type, req.annual_km, req.years,
                                   req.grid_factor, req.vehicle_size) :
          LET t == LifecycleTotals(req.vehicle_type, req.annual_km, req.years,
                                   req.grid_factor, req.vehicle_size)
          IN  calc' = [status |-> "ok", result |-> r, use_kg |-> t.use_kg,
                       total_kg |-> t.total_kg, http_status |-> 200]
    /\ pc' = "done"
    /\ UNCHANGED <<req, years, results, break_even, recommendation>>

\* the lookup VEHICLE_PARAMS[vehicle_type] raises KeyError(vehicle_type);
\* calculate_single turns it into HTTP 400 "Unknown vehicle type: <key>"
CalculateUnknownType ==
    /\ pc = "calculate"
    /\ ~ParamsLookup(req.vehicle_type).found
    /\ calc' = [status |-> "KeyError", key |-> req.vehicle_type,
                http_status |-> 400, detail |-> req.vehicle_type]
    /\ pc' = "done"
    /\ UNCHANGED <<req, years, results, break_even, recommendation>>

NextCalc == CalculateOk \/ CalculateUnknownType

SpecCalc == InitCalc /\ [][NextCalc]_vars

(***************************************************************************)
(* Properties of a single calculation (checked under SpecCalc).            *)
(***************************************************************************)
CalcDone == pc = "done" /\ calc.status = "ok"

Abs(x) == IF x < 0 THEN -x ELSE x

\* C1: in every LifecycleResult returned on valid inputs, the rounded total
\* differs from the sum of the rounded manufacturing, use_phase and disposal
\* by at most 0.1 kg, and total >= 0.
C1_TotalWithinTolerance ==
    CalcDone =>
        LET r == calc.result
        IN  /\ Abs(r.total - (r.manufacturing + r.use_phase + r.disposal)) <= 1
            /\ r.total >= 0

\* a returned result whose rounded total is not the sum of its rounded parts
C1_Witness ==
    /\ CalcDone
    /\ calc.result.total #
          calc.result.manufacturing + calc.result.use_phase + calc.result.disposal

\* C5: calculate on a vehicle_type outside the Constant Library fails with an
\* unknown-vehicle-type rejection that carries the identifier; no defaulted
\* parameters, no LifecycleResult.
C5_UnknownTypeRejected ==
    (pc = "done" /\ req.vehicle_type \notin VehicleTypes) =>
        /\ calc.status = "KeyError"
        /\ calc.key = req.vehicle_type
        /\ calc.http_status = 400
        /\ calc.detail = req.vehicle_type
        /\ "result" \notin DOMAIN calc

C5_Witness ==
    /\ pc = "done"
    /\ req.vehicle_type = UnknownVehicleType
    /\ calc.status = "KeyError"

\* C6 as stated, on the fields of the returned LifecycleResult: the flag is
\* true exactly when total # 0 and (use_phase/total < 0.05 and total > 15000)
\* or (BEV and use_phase/total > 0.70); the reason is present iff the flag is.
C6_FlagFromResultFields ==
    CalcDone =>
        LET r == calc.result
        IN  /\ r.greenwashing_flag <=>
                  /\ r.total # 0
                  /\ \/ (r.use_phase * 100 < 5 * r.total /\ r.total > 150000)
                     \/ (r.vehicle_type = "BEV" /\ r.use_phase * 100 > 70 * r.total)
            /\ (r.greenwashing_reason # "None") <=> r.greenwashing_flag

\* C6 amended: the same rule on the unrounded use-phase and total that the
\* calculation holds before it rounds the fields (masses in 1e-4 kg):
\* use/total < 0.05 is 20*use < total, use/total > 0.70 is use > 7*total/10.
C6_FlagFromUnroundedTotals ==
    CalcDone =>
        LET r == calc.result
            u == calc.use_kg
            t == calc.total_kg
        IN  /\ r.greenwashing_flag <=>
                  /\ t # 0
                  /\ \/ (u <= (t - 1) \div 20 /\ t > 150000000)
                     \/ (r.vehicle_type = "BEV" /\ u > MulDiv(t, 7, 10))
            /\ (r.greenwashing_reason # "None") <=> r.greenwashing_flag
            /\ (t = 0 => ~r.greenwashing_flag)

\* a BEV whose rounded use_phase/total exceeds 0.70 while the unrounded
\* ratio does not: the flag follows the unrounded values
C6_Witness ==
    /\ CalcDone
    /\ calc.result.vehicle_type = "BEV"
    /\ calc.result.use_phase * 100 > 70 * calc.result.total
    /\ ~calc.result.greenwashing_flag

ScenarioA ==
    [vehicle_type |-> "BEV", annual_km |-> 15000, years |-> 10, grid_factor |-> 2330,
     vehicle_size |-> "medium"]

\* C7 as stated: scenario A returns manufacturing 15900, use_phase 6291.0,
\* disposal 1400, total 23591.0, per_km about 15.7 g/km, flag false.
C7_ScenarioA_AsStated ==
    (CalcDone /\ req = ScenarioA) =>
        LET r == calc.result
        IN  /\ r.manufacturing = 159000
            /\ r.use_phase = 62910
            /\ r.disposal = 14000
            /\ r.total = 235910
            /\ r.per_km \in 156..158
            /\ ~r.greenwashing_flag

\* C7 amended: as above with per_km = 157.3 g/km (23591 kg over 150000 km).
C7_ScenarioA ==
    (CalcDone /\ req = ScenarioA) =>
        LET r == calc.result
        IN  /\ r.manufacturing = 159000
            /\ r.use_phase = 62910
            /\ r.disposal = 14000
            /\ r.total = 235910
            /\ r.total_km = 150000
            /\ r.per_km = 1573
            /\ ~r.greenwashing_flag
            /\ r.greenwashing_reason = "None"

C7_Witness == CalcDone /\ req = ScenarioA

\* C10: PHEV takes the plug-in branch (electric fraction 0.42, electric energy
\* 18.0 x size_mult / 100 kWh per km charged at grid_factor), so its use_phase
\* strictly increases with grid_factor; HEV uses fraction 0.05 with no
\* electric emissions, so its use_phase does not depend on grid_factor.
C10_HybridBranches ==
    (CalcDone /\ VEHICLE_PARAMS[req.vehicle_type].fuel_type = "hybrid_petrol") =>
        LET params == VEHICLE_PARAMS[req.vehicle_type]
            size_mult == SIZE_MULTIPLIERS[req.vehicle_size]
            total_km == req.annual_km * req.years
            consumption == params.energy_consumption_per_100km * size_mult
            fossil(f) == MulDiv(MulDiv(consumption, MulDiv(total_km, 100 - f, 100), 10),
                                FUEL_EMISSION_FACTORS["petrol"], 10000)
            electric(f, g) == MulDiv(MulDiv(180 * size_mult, MulDiv(total_km, f, 100), 10),
                                     g, 10000)
            use(g) == CalculateUsePhase(params, total_km, g, size_mult)
        IN  IF req.vehicle_type = "PHEV"
            THEN /\ calc.use_kg = electric(42, req.grid_factor) + fossil(42)
                 /\ \A g \in GridFactors : g > req.grid_factor => use(g) > calc.use_kg
            ELSE /\ calc.use_kg = fossil(5)
                 /\ \A g \in GridFactors : use(g) = calc.use_kg


(***************************************************************************)
(* Comparison: a result list is built by calculate_lifecycle calls that    *)
(* share years, annual_km and grid_factor (compare_vehicles, main.py),     *)
(* then handed to compare_best_vs_all and to recommend_vehicle.            *)
(***************************************************************************)
\* the comparisons explored: the shared request values and the size classes
\* offered to each vehicle (grid_factor in 1e-4)
PipelineSettings ==
    {[years |-> 10, annual_km |-> 15000, grid_factor |-> 2330,
      sizes |-> {"medium", "large"}],
     [years |-> 2, annual_km |-> 15000, grid_factor |-> 10,
      sizes |-> {"small", "medium"}],
     [years |-> 5, annual_km |-> 19000, grid_factor |-> 1245,
      sizes |-> {"small", "medium"}]}

SettingOf(yrs) == CHOOSE s \in PipelineSettings : s.years = yrs

Init ==
    /\ pc = "collect"
    /\ \E s \in PipelineSettings :
          /\ years = s.years
          /\ req = [vehicle_type |-> "BEV", annual_km |-> s.annual_km, years |-> s.years,
                    grid_factor |-> s.grid_factor, vehicle_size |-> "medium"]
    /\ calc = [status |-> "pending"]
    /\ results = <<>>
    /\ break_even = [status |-> "not_run"]
    /\ recommendation = [status |-> "not_run"]

\* the results calculate_lifecycle can return for one more vehicle:
\* calculate_lifecycle is a function, so a request that was calculated
\* before returns the result it returned then
NextResults(rs, vt, size, request) ==
    LET possible == CalculateLifecycle(vt, request.annual_km, request.years,
                                       request.grid_factor, size)
        before == {rs[i] : i \in 1..Len(rs)} \cap possible
    IN  IF before # {} THEN before ELSE possible

\* one more vehicle: calculate_lifecycle on its request, result appended
AppendResult ==
    /\ pc = "collect"
    /\ Len(results) < MaxResults
    /\ \E vt \in VehicleTypes, size \in SettingOf(years).sizes :
          /\ req' = [req EXCEPT !.vehicle_type = vt, !.vehicle_size = size]
          /\ \E r \in NextResults(results, vt, size, req) :
                results' = Append(results, r)
    /\ UNCHANGED <<pc, calc, years, break_even, recommendation>>

\* break_even = compare_best_vs_all(results, years)
CompareStep ==
    /\ pc = "collect"
    /\ break_even' \in CompareBestVsAll(results, years)
    /\ pc' = "compared"
    /\ UNCHANGED <<req, calc, years, results, recommendation>>

\* recommendation = recommend_vehicle(results)
RecommendStep ==
    /\ pc = "compared"
    /\ recommendation' \in RecommendVehicle(results)
    /\ pc' = "done"
    /\ UNCHANGED <<req, calc, years, results, break_even>>

Next == AppendResult \/ CompareStep \/ RecommendStep

Spec == Init /\ [][Next]_vars


(***************************************************************************)
(* Properties of the comparison (checked under Spec).                      *)
(***************************************************************************)
Compared == pc \in {"compared", "done"}

Recommended == pc = "done" /\ recommendation.status = "ok"

\* the pairs returned, <<>> when the comparison is absent
Pairs == IF break_even.status = "ok" THEN break_even.value.pairs ELSE <<>>

PairSet == {Pairs[i] : i \in 1..Len(Pairs)}

Orderings(n) ==
    {f \in [1..n -> 1..n] : \A i, j \in 1..n : f[i] = f[j] => i = j}

\* C3: compare_best_vs_all returns absent for 0 or 1 results; for N >= 2 it
\* returns N-1 pairs, one for each result other than the best one, in
\* ascending order of the comparison vehicle's total, and best_vehicle is a
\* result of minimal total.
C3_PairsPerOtherResult ==
    Compared =>
        LET n == Len(results)
        IN  IF n < 2 THEN break_even.status = "None"
            ELSE /\ break_even.status = "ok"
                 /\ Len(Pairs) = n - 1
                 /\ \E f \in Orderings(n) :
                      /\ results[f[1]].vehicle_type = break_even.value.best_vehicle
                      /\ \A i \in 1..n : results[f[1]].total <= results[i].total
                      /\ \A k \in 1..(n - 1) :
                           /\ Pairs[k].comparison_vehicle = results[f[k + 1]].vehicle_type
                           /\ Pairs[k].best_vehicle = break_even.value.best_vehicle
                           /\ Pairs[k].yearly_comparison_cumulative[1] =
                                results[f[k + 1]].manufacturing + results[f[k + 1]].disposal
                      /\ \A k \in 1..(n - 2) :
                           results[f[k + 1]].total <= results[f[k + 2]].total

\* three results given in descending order of total, two pairs returned
C3_Witness ==
    /\ Compared
    /\ Len(results) = 3
    /\ results[1].total > results[2].total
    /\ results[2].total > results[3].total
    /\ Len(Pairs) = 2

\* the smallest total and the smallest total among the other results
MinTotal(rs) == CHOOSE t \in {rs[i].total : i \in 1..Len(rs)} :
                    \A i \in 1..Len(rs) : t <= rs[i].total

SecondTotal(rs) ==
    LET first == CHOOSE i \in 1..Len(rs) : rs[i].total = MinTotal(rs)
        rest == {rs[i].total : i \in (1..Len(rs)) \ {first}}
    IN  CHOOSE t \in rest : \A u \in rest : t <= u

\* C4: with 2 or more results confidence_percentage is in [50.0, 99.0], is
\* 50.0 at a 0% gap between best and second best and 99.0 for a gap of 29.7%
\* or more; with exactly 1 result it is 99.0.
C4_ConfidenceRange ==
    Recommended =>
        LET conf == recommendation.value.confidence_percentage
        IN  IF Len(results) >= 2
            THEN LET b == MinTotal(results)
                     s == SecondTotal(results)
                 IN  /\ conf >= 500
                     /\ conf <= 990
                     /\ (s = b => conf = 500)
                     /\ ((s - b) * 1000 >= 297 * s => conf = 990)
            ELSE conf = 990

\* a gap strictly between 0% and 29.7% and a confidence strictly inside the range
C4_Witness ==
    /\ Recommended
    /\ Len(results) >= 2
    /\ recommendation.value.confidence_percentage > 500
    /\ recommendation.value.confidence_percentage < 990

IsScenarioC ==
    /\ years = 10
    /\ Len(results) = 2
    /\ \E i, j \in 1..2 :
          /\ i # j
          /\ results[i] \in CalculateLifecycle("BEV", 15000, 10, 2330, "medium")
          /\ results[j] \in CalculateLifecycle("ICEV-p", 15000, 10, 2330, "medium")

\* C8: scenario C, BEV against ICEV-p (15000 km, 10 years, grid 0.233,
\* medium; ICEV-p total 35560.0 kg): best_vehicle is BEV and the single pair
\* compares with ICEV-p and breaks even in year 5.
C8_ScenarioC ==
    (Compared /\ IsScenarioC) =>
        /\ \E i \in 1..2 :
              /\ results[i].vehicle_type = "ICEV-p"
              /\ results[i].manufacturing = 83000
              /\ results[i].use_phase = 269100
              /\ results[i].disposal = 3500
              /\ results[i].total = 355600
        /\ break_even.status = "ok"
        /\ break_even.value.best_vehicle = "BEV"
        /\ Len(Pairs) = 1
        /\ Pairs[1].best_vehicle = "BEV"
        /\ Pairs[1].comparison_vehicle = "ICEV-p"
        /\ Pairs[1].year = Some(5)

C8_Witness == Compared /\ IsScenarioC /\ results[1].vehicle_type = "ICEV-p"

\* C9: the reasoning holds the savings sentence exactly when savings_pct > 0
\* and the worst result is not the best result, also when two results carry
\* the same vehicle_type identifier.
C9_SavingsSentence ==
    Recommended =>
        LET totals == {results[i].total : i \in 1..Len(results)}
            worst_total == CHOOSE t \in totals : \A u \in totals : u <= t
            savings_pct_positive == worst_total > 0 /\ worst_total - MinTotal(results) > 0
            reasoning == recommendation.value.reasoning
        IN  (\E i \in 1..Len(reasoning) : reasoning[i] = "savings_vs_worst")
                <=> savings_pct_positive


\* curve has years + 1 entries, the entry of year y is a 0.1 kg value nearest
\* to (manufacturing + disposal) + (use_phase / years) * y, the entry of year
\* 0 is manufacturing + disposal, and the entries do not decrease
IsCurveOf(curve, r, yrs) ==
    LET upfront == r.manufacturing + r.disposal
    IN  /\ Len(curve) = yrs + 1
        /\ \A y \in 0..yrs :
              2 * Abs(curve[y + 1] * yrs - (upfront * yrs + r.use_phase * y)) <= yrs
        /\ curve[1] = upfront
        /\ \A y \in 1..yrs : curve[y] <= curve[y + 1]

\* C11: for years >= 1 every cumulative curve has years + 1 entries indexed
\* 0..years with curve[y] = (manufacturing + disposal) + (use_phase / years) * y
\* rounded to 1 decimal, so curve[0] = manufacturing + disposal and the curve
\* is non-decreasing; both curves of a pair have equal length, and
\* years_range is 0..years.
C11_CurveShape ==
    (Compared /\ break_even.status = "ok" /\ years >= 1) =>
        LET n == Len(results)
        IN  /\ break_even.value.years_range = [i \in 1..(years + 1) |-> i - 1]
            /\ \A p \in PairSet :
                  Len(p.yearly_best_cumulative) = Len(p.yearly_comparison_cumulative)
            /\ \E f \in Orderings(n) :
                  /\ \A i \in 1..n : results[f[1]].total <= results[i].total
                  /\ \A k \in 1..(n - 1) :
                       /\ IsCurveOf(Pairs[k].yearly_best_cumulative,
                                    results[f[1]], years)
                       /\ IsCurveOf(Pairs[k].yearly_comparison_cumulative,
                                    results[f[k + 1]], years)

\* a pair whose comparison curve has an entry that rounding moved off the
\* exact line, and which rises from year 0 to the last year
C11_Witness ==
    /\ Compared
    /\ years >= 1
    /\ \E k \in 1..Len(Pairs), i \in 1..Len(results), y \in 1..years :
          LET c == Pairs[k].yearly_comparison_cumulative
              r == results[i]
          IN  /\ IsCurveOf(c, r, years)
              /\ c[y + 1] * years # (r.manufacturing + r.disposal) * years + r.use_phase * y
              /\ c[1] < c[years + 1]


\* C12: for a list of 2 or more results handed in the same order to
\* recommend_vehicle and to compare_best_vs_all, recommended_vehicle equals
\* the comparison's best_vehicle and every pair's best_vehicle, also when
\* several results share the minimal total; and savings_vs_worst_kg >= 0.
C12_SameBestVehicle ==
    (Recommended /\ Len(results) >= 2) =>
        /\ break_even.status = "ok"
        /\ recommendation.value.recommended_vehicle = break_even.value.best_vehicle
        /\ \A p \in PairSet :
              p.best_vehicle = recommendation.value.recommended_vehicle
        /\ recommendation.value.total_emissions_kg = MinTotal(results)
        /\ recommendation.value.savings_vs_worst_kg >= 0

\* two results of different vehicle types share the minimal total
C12_Witness ==
    /\ Recommended
    /\ Len(results) >= 2
    /\ \E i, j \in 1..Len(results) :
          /\ results[i].total = MinTotal(results)
          /\ results[j].total = MinTotal(results)
          /\ results[i].vehicle_type # results[j].vehicle_type


\* the rounded total is the sum of the three rounded components
SumExact(r) == r.total = r.manufacturing + r.use_phase + r.disposal

====
